---- MODULE Spec2Model ----
(***************************************************************************)
(* Prediction tracking and multi-horizon verification                      *)
(* (src/src/prediction_tracker.py, class PredictionTracker).               *)
(*                                                                         *)
(* Dates are day numbers; day 0 is a Monday, so datetime.weekday() is the  *)
(* day number modulo 7.  Prices are in cents (get_close_price rounds to 2  *)
(* decimals), change percentages in 1/100 of a percent, accuracies in      *)
(* 1/10000 (round(.., 4)).  The payload fields name, confidence, reasons   *)
(* and actual_pct of a prediction are never read by the tracker and are    *)
(* left out of the records.                                                *)
(***************************************************************************)
EXTENDS Integers, Sequences, FiniteSets, TLC

VARIABLES
    predictions,   \* self.predictions: date -> {predictions, summary}
    file,          \* the document at db_path (NoFile before the first save)
    last,          \* the last operation that ran, and its date
    nops,          \* number of operations run so far
    cal,           \* calendar computation: d, n, pc, out
    cls,           \* classification computation: inputs, pc, out
    sched,         \* scheduled daily verification: pc, today, days run
    ext,           \* extraction computation: report, pc, out
    ups,           \* repeated upsert: pc, date, preds, document after the first
    rep,           \* analyze-history: pc, whether it raised, the table of the report
    pth,           \* the two verification paths: pc, date, responses, import result
    trk            \* 7-day stock tracker: the tracking file and the run counter

vars == <<predictions, file, last, nops, cal, cls, sched, ext, ups, rep, pth, trk>>

-----------------------------------------------------------------------------
(* Bounds *)

MaxOps == 3
MaxRecs == 2
MaxDay == 8
MaxCalDay == 13
MaxN == 6
MaxBlocks == 2

-----------------------------------------------------------------------------
(* Values *)

None == -1

Symbols == {"2330", "2303"}
Prices == {9900, 10300}
PriceOrNone == Prices \cup {None}
RefDates == {0, 1}
AsOfDates == 0..MaxDay
Periods == <<"T+0", "T+1", "T+3", "T+5">>
PeriodSet == {Periods[i] : i \in 1..4}

\* variant: T+1 counted as the same day
DaysSameDay(period) ==
    CASE period = "T+0" -> 0
      [] period = "T+1" -> 0
      [] period = "T+3" -> 3
      [] period = "T+5" -> 5

\* int(period.replace('T+', ''))
Days(period) ==
    CASE period = "T+0" -> 0
      [] period = "T+1" -> 1
      [] period = "T+3" -> 3
      [] period = "T+5" -> 5

\* round(a / b) for b > 0, to the nearest integer (no quotient of the model
\* lies half-way between two integers, where Python rounds to the even one)
RoundDiv(a, b) == (2 * a + b) \div (2 * b)

-----------------------------------------------------------------------------
(* TradingCalendar *)

Weekday(date) == date % 7

IsTradingDay(date) == Weekday(date) < 5

RECURSIVE AddLoop(_, _, _)
AddLoop(date, count, days) ==
    IF count < days
    THEN AddLoop(date + 1, IF IsTradingDay(date + 1) THEN count + 1 ELSE count, days)
    ELSE date

\* variant: adds calendar days, as _add_days does
AddCalendarDays(date, days) == date + days

_add_trading_days(date, days) == AddLoop(date, 0, days)

RECURSIVE SubLoop(_, _, _)
SubLoop(date, count, days) ==
    IF count < days
    THEN SubLoop(date - 1, IF IsTradingDay(date - 1) THEN count + 1 ELSE count, days)
    ELSE date

\* variant: subtracts calendar days, as _add_days does
SubtractCalendarDays(date, days) == date - days

_subtract_trading_days(date, days) == SubLoop(date, 0, days)

-----------------------------------------------------------------------------
(* Extraction results *)

PendingResult == [date |-> None, close_price |-> None, result |-> "pending"]

InitVerification == [p \in PeriodSet |-> PendingResult]

_parse_direction_of_pct(min_pct, max_pct) ==
    IF min_pct > 0 THEN "up"
    ELSE IF max_pct < 0 THEN "down"
    ELSE "neutral"

\* a prediction appended by _extract_from_stock_sections
StockSectionPred(symbol, prev_close, direction, target_min, target_max) ==
    [symbol |-> symbol, prev_close |-> prev_close, direction |-> direction,
     target_range |-> <<"tuple", target_min, target_max>>,
     target_min |-> target_min, target_max |-> target_max,
     has_pct |-> FALSE, pred_pct_min |-> 0, pred_pct_max |-> 0]

\* a prediction appended by _parse_new_format_table
NewFormatTablePred(symbol, min_pct, max_pct) ==
    [symbol |-> symbol, prev_close |-> 0,
     direction |-> _parse_direction_of_pct(min_pct, max_pct),
     target_range |-> <<"tuple", 0, 0>>,
     target_min |-> 0, target_max |-> 0,
     has_pct |-> TRUE, pred_pct_min |-> min_pct, pred_pct_max |-> max_pct]

\* the prediction blocks of a report that parse, in document order; the second
\* one has no row in the price tables of the report (prev_close stays 0)
StockBlocks ==
    [i \in 1..MaxRecs |->
        CASE i % 3 = 1 -> StockSectionPred("2330", 10000, "up", 10200, 10500)
          [] i % 3 = 2 -> StockSectionPred("2303", 0, "down", 9700, 9900)
          [] OTHER     -> StockSectionPred("2330", 10000, "neutral", 9900, 10300)]

\* the rows of the verification table of the after-market report that parse
TableRows ==
    [i \in 1..MaxRecs |->
        CASE i % 3 = 1 -> NewFormatTablePred("2303", 2, 4)
          [] i % 3 = 2 -> NewFormatTablePred("2330", -3, -1)
          [] OTHER     -> NewFormatTablePred("2303", -1, 1)]

RECURSIVE SubSeqs(_)
SubSeqs(s) ==
    IF s = <<>> THEN {<<>>}
    ELSE LET rest == SubSeqs(Tail(s))
         IN  rest \cup {<<Head(s)>> \o r : r \in rest}

\* what extract_predictions_from_report can return: the rows of the after-market
\* table when there are any, else the blocks of the report that parse (a block
\* or row that does not parse is skipped); [] too when the report is unreadable
ExtractedLists ==
    (SubSeqs(TableRows) \ {<<>>}) \cup SubSeqs(StockBlocks)

-----------------------------------------------------------------------------
(* Classification *)

\* variant: an unchanged close counts as the predicted direction
VerifySingleInclusive(pred, close_price) ==
    LET in_target_range ==
            pred.target_min <= close_price /\ close_price <= pred.target_max
        direction_correct ==
            IF pred.direction = "up" THEN close_price >= pred.prev_close
            ELSE IF pred.direction = "down" THEN close_price <= pred.prev_close
            ELSE TRUE
    IN  [in_target_range |-> in_target_range,
         direction_correct |-> direction_correct,
         result |-> IF in_target_range THEN "success"
                    ELSE IF direction_correct THEN "partial"
                    ELSE "fail"]

_verify_single_prediction(pred, close_price) ==
    LET in_target_range ==
            pred.target_min <= close_price /\ close_price <= pred.target_max
        direction_correct ==
            IF pred.direction = "up" THEN close_price > pred.prev_close
            ELSE IF pred.direction = "down" THEN close_price < pred.prev_close
            ELSE TRUE
    IN  [in_target_range |-> in_target_range,
         direction_correct |-> direction_correct,
         result |-> IF in_target_range THEN "success"
                    ELSE IF direction_correct THEN "partial"
                    ELSE "fail"]

\* a change measured against the close instead of the previous close
CalculateChangePctOfClose(prev_close, close_price) ==
    IF prev_close = 0 THEN 0
    ELSE RoundDiv((close_price - prev_close) * 10000, close_price)

_calculate_change_pct(prev_close, close_price) ==
    IF prev_close = 0 THEN 0
    ELSE RoundDiv((close_price - prev_close) * 10000, prev_close)

\* the dict written to pred['verification'][period]
VerificationResult(pred, target_date, close_price) ==
    LET result == _verify_single_prediction(pred, close_price)
    IN  [date |-> target_date,
         close_price |-> close_price,
         change_pct |-> _calculate_change_pct(pred.prev_close, close_price),
         in_target_range |-> result.in_target_range,
         direction_correct |-> result.direction_correct,
         result |-> result.result]

-----------------------------------------------------------------------------
(* Store operations *)

SummaryOf(preds, period) ==
    LET total == Len(preds)
        success == Cardinality({i \in 1..Len(preds) :
                                  preds[i].verification[period].result = "success"})
    IN  [total |-> total, success |-> success,
         accuracy |-> IF total > 0 THEN RoundDiv(success * 10000, total) ELSE 0]

\* variant: keeps running counters, adding each run's counts to the stored ones
UpdateSummaryAccumulate(store, date, period) ==
    LET old == store[date].summary
        fresh == SummaryOf(store[date].predictions, period)
        total == fresh.total + (IF period \in DOMAIN old THEN old[period].total ELSE 0)
        success == fresh.success
                     + (IF period \in DOMAIN old THEN old[period].success ELSE 0)
    IN  [store EXCEPT ![date].summary =
            [p \in DOMAIN old \cup {period} |->
                IF p = period
                THEN [total |-> total, success |-> success,
                      accuracy |-> IF total > 0 THEN RoundDiv(success * 10000, total)
                                   ELSE 0]
                ELSE old[p]]]

_update_summary(store, date, period) ==
    LET old == store[date].summary
    IN  [store EXCEPT ![date].summary =
            [p \in DOMAIN old \cup {period} |->
                IF p = period THEN SummaryOf(store[date].predictions, period)
                ELSE old[p]]]

\* the new-date entry of save_predictions
EmptyEntry == [predictions |-> <<>>, summary |-> <<>>]

InitPred(pred) ==
    [f \in DOMAIN pred \cup {"verification"} |->
        IF f = "verification"
        THEN (IF "verification" \in DOMAIN pred THEN pred.verification
              ELSE InitVerification)
        ELSE pred[f]]

\* an upsert that appends to the set of the date instead of replacing it
SavePredictionsAppend(store, date, preds) ==
    LET s1 == IF date \in DOMAIN store THEN store
              ELSE [d \in DOMAIN store \cup {date} |->
                      IF d = date THEN EmptyEntry ELSE store[d]]
    IN  [s1 EXCEPT ![date].predictions =
            @ \o [i \in 1..Len(preds) |-> InitPred(preds[i])]]

\* self.predictions after save_predictions(date, preds)
save_predictions(store, date, preds) ==
    LET s1 == IF date \in DOMAIN store THEN store
              ELSE [d \in DOMAIN store \cup {date} |->
                      IF d = date THEN EmptyEntry ELSE store[d]]
    IN  [s1 EXCEPT ![date].predictions = [i \in 1..Len(preds) |-> InitPred(preds[i])]]

\* an iteration that also resolves an unresolved prev_close with the close
VerifyPeriodFillsPrevClose(store, period, target_date, px) ==
    LET pred_date == _subtract_trading_days(target_date, Days(period))
    IN  IF pred_date \notin DOMAIN store THEN store
        ELSE
        LET preds == store[pred_date].predictions
            filled(pred) == IF pred.prev_close = 0
                            THEN [pred EXCEPT !.prev_close = px[pred.symbol]]
                            ELSE pred
            newpreds == [i \in 1..Len(preds) |->
                IF px[preds[i].symbol] = None THEN preds[i]
                ELSE [filled(preds[i]) EXCEPT !.verification[period] =
                        VerificationResult(filled(preds[i]), target_date,
                                           px[preds[i].symbol])]]
            verified_count == Cardinality({i \in 1..Len(preds) :
                                             px[preds[i].symbol] # None})
            s1 == [store EXCEPT ![pred_date].predictions = newpreds]
        IN  IF verified_count > 0 THEN _update_summary(s1, pred_date, period) ELSE s1

\* an iteration that leaves the loop over the records at the first record
\* without a close
VerifyPeriodBreak(store, period, target_date, px) ==
    LET pred_date == _subtract_trading_days(target_date, Days(period))
    IN  IF pred_date \notin DOMAIN store THEN store
        ELSE
        LET preds == store[pred_date].predictions
            reached(i) == \A j \in 1..i : px[preds[j].symbol] # None
            newpreds == [i \in 1..Len(preds) |->
                IF ~reached(i) THEN preds[i]
                ELSE [preds[i] EXCEPT !.verification[period] =
                        VerificationResult(preds[i], target_date, px[preds[i].symbol])]]
            verified_count == Cardinality({i \in 1..Len(preds) : reached(i)})
            s1 == [store EXCEPT ![pred_date].predictions = newpreds]
        IN  IF verified_count > 0 THEN _update_summary(s1, pred_date, period) ELSE s1

\* one iteration of the loop over verify_dates in verify_predictions
VerifyPeriod(store, period, target_date, px) ==
    LET pred_date == _subtract_trading_days(target_date, Days(period))
    IN  IF pred_date \notin DOMAIN store THEN store
        ELSE
        LET preds == store[pred_date].predictions
            newpreds == [i \in 1..Len(preds) |->
                IF px[preds[i].symbol] = None THEN preds[i]
                ELSE [preds[i] EXCEPT !.verification[period] =
                        VerificationResult(preds[i], target_date, px[preds[i].symbol])]]
            verified_count == Cardinality({i \in 1..Len(preds) :
                                             px[preds[i].symbol] # None})
            s1 == [store EXCEPT ![pred_date].predictions = newpreds]
        IN  IF verified_count > 0 THEN _update_summary(s1, pred_date, period) ELSE s1

\* a verify that returns at the first horizon whose source date is not stored
RECURSIVE VerifyStopAtMissingFrom(_, _, _, _)
VerifyStopAtMissingFrom(store, k, target_date, px) ==
    IF k > Len(Periods) THEN store
    ELSE IF _subtract_trading_days(target_date, Days(Periods[k])) \notin DOMAIN store
         THEN store
         ELSE VerifyStopAtMissingFrom(
                  VerifyPeriod(store, Periods[k], target_date, px),
                  k + 1, target_date, px)

VerifyStopAtMissing(store, target_date, px) ==
    VerifyStopAtMissingFrom(store, 1, target_date, px)

\* self.predictions after verify_predictions(target_date), px the closes of target_date
verify_predictions(store, target_date, px) ==
    VerifyPeriod(VerifyPeriod(VerifyPeriod(VerifyPeriod(
        store, "T+0", target_date, px), "T+1", target_date, px),
        "T+3", target_date, px), "T+5", target_date, px)

-----------------------------------------------------------------------------
(* Persistence *)

EmptyStore == <<>>
\* valid: whether json.load can parse what is at db_path
NoFile == [exists |-> FALSE, valid |-> FALSE, doc |-> EmptyStore]

JsonPred(pred) ==
    [pred EXCEPT !.target_range = <<"list", pred.target_range[2], pred.target_range[3]>>]

\* a document that does not carry the summaries
JsonRoundTripNoSummary(store) ==
    [d \in DOMAIN store |->
        [predictions |->
            [i \in 1..Len(store[d].predictions) |-> JsonPred(store[d].predictions[i])],
         summary |-> <<>>]]

\* json.load(json.dump(store)): a tuple comes back as a list
JsonRoundTrip(store) ==
    [d \in DOMAIN store |->
        [store[d] EXCEPT !.predictions =
            [i \in 1..Len(store[d].predictions) |-> JsonPred(store[d].predictions[i])]]]

\* the document save_to_file leaves at db_path
save_to_file(store) == [exists |-> TRUE, valid |-> TRUE, doc |-> JsonRoundTrip(store)]

\* what open(db_path, 'w') leaves when json.dump does not complete: the file
\* was truncated by open and holds at most a prefix of the document
TruncatedFile == [exists |-> TRUE, valid |-> FALSE, doc |-> EmptyStore]

\* save_to_file raising: at == "open" when open fails (nothing written),
\* at == "dump" when the write fails after open truncated the file
WriteFailures == {"open", "dump"}
FailedSave(f, at) == IF at = "open" THEN f ELSE TruncatedFile

load_predictions(f) ==
    IF ~f.exists THEN EmptyStore
    ELSE IF ~f.valid THEN EmptyStore
    ELSE f.doc

-----------------------------------------------------------------------------
(* Historical import *)

\* responses of get_close_price during one import: prev for the day before
\* pred_date, close for the verify dates of the periods of at most upto days
\* (no price for the later ones), the same for every symbol
HistResponses ==
    [prev : {None, 10000}, close : {10300}, upto : {None, 0, 5}]

HistClose(hx, period) == IF Days(period) <= hx.upto THEN hx.close ELSE None

\* the prev_close back-fill loop of _verify_historical_periods
FillPrevClose(pred, prev_close) ==
    IF pred.prev_close = 0 /\ prev_close # None /\ prev_close # 0
    THEN IF pred.has_pct
         THEN LET tmin == RoundDiv(prev_close * (100 + pred.pred_pct_min), 100)
                  tmax == RoundDiv(prev_close * (100 + pred.pred_pct_max), 100)
              IN  [pred EXCEPT !.prev_close = prev_close,
                               !.target_min = tmin, !.target_max = tmax,
                               !.target_range = <<"tuple", tmin, tmax>>]
         ELSE [pred EXCEPT !.prev_close = prev_close]
    ELSE pred

\* one iteration of the loop over periods in _verify_historical_periods
HistPeriod(store, pred_date, period, hx) ==
    LET verify_date == _add_trading_days(pred_date, Days(period))
        close_price == HistClose(hx, period)
        preds == store[pred_date].predictions
        newpreds == [i \in 1..Len(preds) |->
            IF close_price # None /\ close_price # 0 /\ preds[i].prev_close > 0
            THEN [preds[i] EXCEPT !.verification[period] =
                    VerificationResult(preds[i], verify_date, close_price)]
            ELSE preds[i]]
    IN  _update_summary([store EXCEPT ![pred_date].predictions = newpreds],
                        pred_date, period)

_verify_historical_periods(store, pred_date, hx) ==
    IF pred_date \notin DOMAIN store
    THEN store
    ELSE LET preds == store[pred_date].predictions
             s0 == [store EXCEPT ![pred_date].predictions =
                      [i \in 1..Len(preds) |-> FillPrevClose(preds[i], hx.prev)]]
         IN  HistPeriod(HistPeriod(HistPeriod(HistPeriod(
                 s0, pred_date, "T+0", hx), pred_date, "T+1", hx),
                 pred_date, "T+3", hx), pred_date, "T+5", hx)

-----------------------------------------------------------------------------
(* Historical report *)

\* the dates whose summary.get(period + '_accuracy') is not None
StatsDates(store, period) ==
    {d \in DOMAIN store : period \in DOMAIN store[d].summary}

RECURSIVE SumAccuracy(_, _, _)
SumAccuracy(store, dates, period) ==
    IF dates = {} THEN 0
    ELSE LET d == CHOOSE x \in dates : TRUE
         IN  store[d].summary[period].accuracy
               + SumAccuracy(store, dates \ {d}, period)

\* table_data of _generate_analysis_report from index k of the periods on; the
\* accuracy of a row is accuracy_sum / samples
RECURSIVE TableFrom(_, _)
TableFrom(store, k) ==
    IF k > Len(Periods) THEN <<>>
    ELSE LET dates == StatsDates(store, Periods[k])
             row == [period |-> Periods[k],
                     accuracy_sum |-> SumAccuracy(store, dates, Periods[k]),
                     samples |-> Cardinality(dates)]
         IN  (IF dates # {} THEN <<row>> ELSE <<>>) \o TableFrom(store, k + 1)

table_data(store) == TableFrom(store, 1)

-----------------------------------------------------------------------------
(* Commands of main(): each one builds a tracker (which loads the document),
   runs one operation and saves *)

Idle == [pc |-> "idle"]

\* extract <report_path>; date is the date in the report path, or None
ExtractCommand(date, preds) ==
    /\ nops < MaxOps
    /\ IF date # None
       THEN /\ predictions' = save_predictions(load_predictions(file), date, preds)
            /\ file' = save_to_file(predictions')
       ELSE /\ predictions' = load_predictions(file)
            /\ file' = file
    /\ last' = "extract"
    /\ nops' = nops + 1
    /\ UNCHANGED <<cal, cls, sched, ext, ups, rep, pth, trk>>

\* verify <date>; px the closes get_close_price returns for target_date
VerifyCommand(target_date, px) ==
    /\ nops < MaxOps
    /\ predictions' = verify_predictions(load_predictions(file), target_date, px)
    /\ file' = save_to_file(predictions')
    /\ last' = "verify"
    /\ nops' = nops + 1
    /\ UNCHANGED <<cal, cls, sched, ext, ups, rep, pth, trk>>

\* import-history --dates <date>
ImportHistoryCommand(date, preds, hx) ==
    /\ nops < MaxOps
    /\ IF preds = <<>>
       THEN /\ predictions' = load_predictions(file)
            /\ file' = file
       ELSE /\ predictions' = _verify_historical_periods(
                 save_predictions(load_predictions(file), date, preds), date, hx)
            /\ file' = save_to_file(predictions')
    /\ last' = "import"
    /\ nops' = nops + 1
    /\ UNCHANGED <<cal, cls, sched, ext, ups, rep, pth, trk>>

Init ==
    /\ file = NoFile
    /\ predictions = load_predictions(NoFile)
    /\ last = "init"
    /\ nops = 0
    /\ cal = Idle
    /\ cls = Idle
    /\ sched = Idle
    /\ ext = Idle
    /\ ups = Idle
    /\ rep = Idle
    /\ pth = Idle
    /\ trk = Idle

Next ==
    \/ \E date \in RefDates \cup {None}, preds \in ExtractedLists :
          ExtractCommand(date, preds)
    \/ \E target_date \in AsOfDates, px \in [Symbols -> PriceOrNone] :
          VerifyCommand(target_date, px)
    \/ \E date \in RefDates, preds \in ExtractedLists, hx \in HistResponses :
          ImportHistoryCommand(date, preds, hx)

Spec == Init /\ [][Next]_vars

-----------------------------------------------------------------------------
(* The commands together with analyze-history (taken once), which reads the
   loaded store and writes the report; accuracies are kept as accuracy_sum / samples and an
   improvement as the fraction improvement_num / improvement_den *)

\* base_accuracy = table_data[0]['accuracy'] if table_data else 0
BaseRow(table) ==
    IF table # <<>> THEN table[1]
    ELSE [period |-> "none", accuracy_sum |-> 0, samples |-> 1]

\* the rows of the report table: improvement = accuracy - base_accuracy
ReportRows(table) ==
    LET base == BaseRow(table)
    IN  [k \in 1..Len(table) |->
            [period |-> table[k].period,
             accuracy_sum |-> table[k].accuracy_sum,
             samples |-> table[k].samples,
             improvement_num |-> table[k].accuracy_sum * base.samples
                                   - base.accuracy_sum * table[k].samples,
             improvement_den |-> table[k].samples * base.samples]]

\* raised: min(self.predictions.keys()) of an empty store raises ValueError
_generate_analysis_report(store) ==
    IF DOMAIN store = {}
    THEN [raised |-> TRUE, base_period |-> "none", rows |-> <<>>]
    ELSE [raised |-> FALSE,
          base_period |-> BaseRow(table_data(store)).period,
          rows |-> ReportRows(table_data(store))]

\* analyze_history: the report is written when generating it did not raise
analyze_history(store) ==
    LET report == _generate_analysis_report(store)
    IN  [pc |-> "done", raised |-> report.raised, written |-> ~report.raised,
         base_period |-> report.base_period, rows |-> report.rows]

AnalyzeHistoryCommand ==
    /\ nops < MaxOps
    /\ rep.pc = "idle"
    /\ predictions' = load_predictions(file)
    /\ rep' = analyze_history(predictions')
    /\ last' = "analyze"
    /\ nops' = nops + 1
    /\ UNCHANGED <<file, cal, cls, sched, ext, ups, pth, trk>>

AnNext ==
    \/ Next
    \/ AnalyzeHistoryCommand

SpecAn == Init /\ [][AnNext]_vars

-----------------------------------------------------------------------------
(* The calendar law as a computation: add n trading days, then subtract n *)

CalDates == 0..MaxCalDay

StoreIdle ==
    /\ file = NoFile
    /\ predictions = EmptyStore
    /\ last = "init"
    /\ nops = 0

CalInit ==
    /\ StoreIdle
    /\ cls = Idle
    /\ sched = Idle
    /\ ext = Idle
    /\ ups = Idle
    /\ rep = Idle
    /\ pth = Idle
    /\ trk = Idle
    /\ cal \in [pc : {"start"}, d : CalDates, n : 0..MaxN, out : {None}]

CalAdd ==
    /\ cal.pc = "start"
    /\ cal' = [cal EXCEPT !.pc = "added", !.out = _add_trading_days(cal.d, cal.n)]
    /\ UNCHANGED <<predictions, file, last, nops, cls, sched, ext, ups, rep, pth, trk>>

CalSubtract ==
    /\ cal.pc = "added"
    /\ cal' = [cal EXCEPT !.pc = "done", !.out = _subtract_trading_days(cal.out, cal.n)]
    /\ UNCHANGED <<predictions, file, last, nops, cls, sched, ext, ups, rep, pth, trk>>

CalNext == CalAdd \/ CalSubtract

SpecCal == CalInit /\ [][CalNext]_vars

-----------------------------------------------------------------------------
(* Trading-day arithmetic as a computation: from any date d, either add n
   trading days or subtract n trading days *)

DaysInit ==
    /\ StoreIdle
    /\ cls = Idle
    /\ sched = Idle
    /\ ext = Idle
    /\ ups = Idle
    /\ rep = Idle
    /\ pth = Idle
    /\ trk = Idle
    /\ cal \in [pc : {"start"}, d : CalDates, n : 0..MaxN, out : {None}]

DaysAdd ==
    /\ cal.pc = "start"
    /\ cal' = [cal EXCEPT !.pc = "added", !.out = _add_trading_days(cal.d, cal.n)]
    /\ UNCHANGED <<predictions, file, last, nops, cls, sched, ext, ups, rep, pth, trk>>

DaysSubtract ==
    /\ cal.pc = "start"
    /\ cal' = [cal EXCEPT !.pc = "subtracted",
                          !.out = _subtract_trading_days(cal.d, cal.n)]
    /\ UNCHANGED <<predictions, file, last, nops, cls, sched, ext, ups, rep, pth, trk>>

DaysNext == DaysAdd \/ DaysSubtract

SpecDays == DaysInit /\ [][DaysNext]_vars

-----------------------------------------------------------------------------
(* Classification as a computation on one prediction and one close *)

ClsPrices == {9900, 10000, 10200, 10300, 10500, 10800}
Directions == {"up", "down", "neutral"}

ClsInit ==
    /\ StoreIdle
    /\ cal = Idle
    /\ sched = Idle
    /\ ext = Idle
    /\ ups = Idle
    /\ rep = Idle
    /\ pth = Idle
    /\ trk = Idle
    /\ cls \in [pc : {"start"}, prev_close : ClsPrices, target_min : ClsPrices,
                 target_max : ClsPrices, direction : Directions,
                 close : ClsPrices, out : {PendingResult}]

Classify ==
    /\ cls.pc = "start"
    /\ cls' = [cls EXCEPT !.pc = "done",
                  !.out = VerificationResult(
                      StockSectionPred("2330", cls.prev_close, cls.direction,
                                       cls.target_min, cls.target_max),
                      0, cls.close)]
    /\ UNCHANGED <<predictions, file, last, nops, cal, sched, ext, ups, rep, pth, trk>>

ClsNext == Classify

SpecCls == ClsInit /\ [][ClsNext]_vars

-----------------------------------------------------------------------------
(* Scheduled daily verification: one report is extracted and saved, then
   `verify <today>` runs once on every trading day from the report's date on,
   each run asking the provider for the closes of that day *)

ExamplePred == StockSectionPred("2330", 59000, "up", 60000, 61000)

SchedLists ==
    {<<ExamplePred>>,
     <<ExamplePred, StockSectionPred("2303", 0, "down", 9700, 9900)>>}

\* the provider is down for the whole run (None) or returns the day's closes
SchedResponses == {[s \in Symbols |-> c] : c \in {None, 58000, 60500}}

SchedInit ==
    /\ StoreIdle
    /\ cal = Idle
    /\ cls = Idle
    /\ ext = Idle
    /\ ups = Idle
    /\ rep = Idle
    /\ pth = Idle
    /\ trk = Idle
    /\ sched = [pc |-> "extract", date |-> None, today |-> None, px |-> <<>>]

SchedExtract(date, preds) ==
    /\ sched.pc = "extract"
    /\ predictions' = save_predictions(load_predictions(file), date, preds)
    /\ file' = save_to_file(predictions')
    /\ last' = "extract"
    /\ sched' = [sched EXCEPT !.pc = "run", !.date = date, !.today = date]
    /\ UNCHANGED <<nops, cal, cls, ext, ups, rep, pth, trk>>

\* the run of one trading day; the next run is on the next trading day
SchedVerify(px) ==
    /\ sched.pc = "run"
    /\ predictions' = verify_predictions(load_predictions(file), sched.today, px)
    /\ file' = save_to_file(predictions')
    /\ last' = "verify"
    /\ LET next == _add_trading_days(sched.today, 1)
       IN  sched' = [sched EXCEPT !.pc = IF next > MaxDay THEN "done" ELSE "run",
                                  !.today = next,
                                  !.px = (sched.today :> px) @@ sched.px]
    /\ UNCHANGED <<nops, cal, cls, ext, ups, rep, pth, trk>>

SchedNext ==
    \/ \E date \in RefDates, preds \in SchedLists : SchedExtract(date, preds)
    \/ \E px \in SchedResponses : SchedVerify(px)

SpecSched == SchedInit /\ [][SchedNext]_vars

-----------------------------------------------------------------------------
(* The commands with a storage that can fail: save_to_file at the end of
   verify raises, and the exception leaves verify_predictions and main *)

VerifyWriteFails(target_date, px, at) ==
    /\ nops < MaxOps
    /\ predictions' = verify_predictions(load_predictions(file), target_date, px)
    /\ file' = FailedSave(file, at)
    /\ last' = "verify_failed"
    /\ nops' = nops + 1
    /\ UNCHANGED <<cal, cls, sched, ext, ups, rep, pth, trk>>

IONext ==
    \/ Next
    \/ \E target_date \in AsOfDates, px \in [Symbols -> PriceOrNone],
          at \in WriteFailures : VerifyWriteFails(target_date, px, at)

SpecIO == Init /\ [][IONext]_vars

-----------------------------------------------------------------------------
(* Re-extraction: `extract` of a report, possibly a `verify`, then `extract`
   of the same report again *)

UpsInit ==
    /\ StoreIdle
    /\ cal = Idle
    /\ cls = Idle
    /\ sched = Idle
    /\ ext = Idle
    /\ ups = [pc |-> "first", date |-> None, preds |-> <<>>, once |-> NoFile]
    /\ rep = Idle
    /\ pth = Idle
    /\ trk = Idle

UpsFirst(date, preds) ==
    /\ ups.pc = "first"
    /\ predictions' = save_predictions(load_predictions(file), date, preds)
    /\ file' = save_to_file(predictions')
    /\ last' = "extract"
    /\ ups' = [pc |-> "between", date |-> date, preds |-> preds, once |-> file']
    /\ UNCHANGED <<nops, cal, cls, sched, ext, rep, pth, trk>>

UpsVerify(target_date, px) ==
    /\ ups.pc = "between"
    /\ predictions' = verify_predictions(load_predictions(file), target_date, px)
    /\ file' = save_to_file(predictions')
    /\ last' = "verify"
    /\ ups' = [ups EXCEPT !.pc = "verified"]
    /\ UNCHANGED <<nops, cal, cls, sched, ext, rep, pth, trk>>

UpsSecond ==
    /\ ups.pc \in {"between", "verified"}
    /\ predictions' = save_predictions(load_predictions(file), ups.date, ups.preds)
    /\ file' = save_to_file(predictions')
    /\ last' = "extract"
    /\ ups' = [ups EXCEPT !.pc = "done"]
    /\ UNCHANGED <<nops, cal, cls, sched, ext, rep, pth, trk>>

UpsNext ==
    \/ \E date \in RefDates, preds \in ExtractedLists : UpsFirst(date, preds)
    \/ \E target_date \in AsOfDates, px \in [Symbols -> PriceOrNone] :
          UpsVerify(target_date, px)
    \/ UpsSecond

SpecUps == UpsInit /\ [][UpsNext]_vars

-----------------------------------------------------------------------------
(* Extraction from one report.  The regular expressions are modelled by what
   they find: whether the file can be read, whether a date is found, the rows
   the table pattern finds in the after-market file next to the report, and
   for each `#### prediction N:` block the header, the direction words and
   the target price range they match *)

NotFound == "not found"

\* direction words: kan-zhang (up), kan-die (down), zhen-dang (sideways)
_parse_direction(direction_str) ==
    IF direction_str = "kan-zhang" THEN "up"
    ELSE IF direction_str = "kan-die" THEN "down"
    ELSE "neutral"

\* target: "range" when the pattern matched two numbers, "nofloat" when it
\* matched text float() rejects, NotFound when it did not match
Block(header, symbol, direction_str, target, target_min, target_max, prev_close) ==
    [header |-> header, symbol |-> symbol, direction_str |-> direction_str,
     target |-> target, target_min |-> target_min, target_max |-> target_max,
     prev_close |-> prev_close]

BlockKinds ==
    { Block(TRUE, "2330", "kan-zhang", "range", 10200, 10500, 10000),
      Block(TRUE, "2303", "kan-die", "range", 9900, 9700, 0),
      Block(FALSE, "2330", "kan-zhang", "range", 10200, 10500, 10000),
      Block(TRUE, "2303", NotFound, "range", 9700, 9900, 10000),
      Block(TRUE, "2330", "zhen-dang", NotFound, 0, 0, 10000),
      Block(TRUE, "2303", "kan-zhang", "nofloat", 0, 0, 10000) }

RECURSIVE SeqsUpTo(_, _)
SeqsUpTo(S, n) ==
    IF n = 0 THEN {<<>>}
    ELSE LET shorter == SeqsUpTo(S, n - 1)
         IN  shorter \cup {Append(q, x) : q \in shorter, x \in S}

AfterMarketRows ==
    { <<>>,
      <<[symbol |-> "2303", min_pct |-> 2, max_pct |-> 4]>>,
      <<[symbol |-> "2330", min_pct |-> -1, max_pct |-> -3]>> }

Reports ==
    [readable : BOOLEAN, has_date : BOOLEAN, after_rows : AfterMarketRows,
     blocks : SeqsUpTo(BlockKinds, MaxBlocks)]

_parse_new_format_table(matches) ==
    [i \in 1..Len(matches) |->
        NewFormatTablePred(matches[i].symbol, matches[i].min_pct, matches[i].max_pct)]

\* the loop over pred_blocks[1:]
RECURSIVE SectionsLoop(_)
SectionsLoop(pred_blocks) ==
    IF pred_blocks = <<>> THEN <<>>
    ELSE LET block == Head(pred_blocks)
             rest == SectionsLoop(Tail(pred_blocks))
         IN  IF ~block.header THEN rest
             ELSE IF block.direction_str = NotFound THEN rest
             ELSE IF block.target = NotFound THEN rest
             ELSE IF block.target = "nofloat" THEN rest
             ELSE <<StockSectionPred(block.symbol, block.prev_close,
                        _parse_direction(block.direction_str),
                        block.target_min, block.target_max)>> \o rest

\* a version in which a block without direction or target fails the whole
\* extraction, which then returns nothing
ExtractSectionsStrict(pred_blocks) ==
    IF \E i \in 1..Len(pred_blocks) :
          /\ pred_blocks[i].header
          /\ \/ pred_blocks[i].direction_str = NotFound
             \/ pred_blocks[i].target # "range"
    THEN <<>>
    ELSE SectionsLoop(pred_blocks)

_extract_from_stock_sections(pred_blocks) == SectionsLoop(pred_blocks)

\* the body of the try block: raised when open() raises
ExtractBody(report) ==
    IF ~report.readable THEN [raised |-> TRUE, predictions |-> <<>>]
    ELSE IF ~report.has_date THEN [raised |-> FALSE, predictions |-> <<>>]
    ELSE IF _parse_new_format_table(report.after_rows) # <<>>
         THEN [raised |-> FALSE,
               predictions |-> _parse_new_format_table(report.after_rows)]
         ELSE [raised |-> FALSE,
               predictions |-> _extract_from_stock_sections(report.blocks)]

\* try: ... except Exception: return []
extract_predictions_from_report(report) ==
    IF ExtractBody(report).raised THEN [raised |-> FALSE, predictions |-> <<>>]
    ELSE ExtractBody(report)

ExtInit ==
    /\ StoreIdle
    /\ cal = Idle
    /\ cls = Idle
    /\ sched = Idle
    /\ ups = Idle
    /\ rep = Idle
    /\ pth = Idle
    /\ trk = Idle
    /\ ext \in [pc : {"start"}, report : Reports,
                 out : {[raised |-> FALSE, predictions |-> <<>>]}]

ExtractReport ==
    /\ ext.pc = "start"
    /\ ext' = [ext EXCEPT !.pc = "extracted",
                          !.out = extract_predictions_from_report(ext.report)]
    /\ UNCHANGED <<predictions, file, last, nops, cal, cls, sched, ups, rep, pth, trk>>

\* main, extract: the list is saved under the date of the report path
ExtSave(date) ==
    /\ ext.pc = "extracted"
    /\ ~ext.out.raised
    /\ predictions' = save_predictions(load_predictions(file), date, ext.out.predictions)
    /\ file' = save_to_file(predictions')
    /\ last' = "extract"
    /\ ext' = [ext EXCEPT !.pc = "saved"]
    /\ UNCHANGED <<nops, cal, cls, sched, ups, rep, pth, trk>>

ExtNext ==
    \/ ExtractReport
    \/ \E date \in RefDates : ExtSave(date)

SpecExt == ExtInit /\ [][ExtNext]_vars

-----------------------------------------------------------------------------
(* Properties *)

Doc == file.doc

Recs(store) ==
    UNION {{<<d, i>> : i \in 1..Len(store[d].predictions)} : d \in DOMAIN store}

Ver(store, r, period) == store[r[1]].predictions[r[2]].verification[period]

Resolved(store, r, period) == Ver(store, r, period).result # "pending"

Abs(x) == IF x < 0 THEN -x ELSE x

\* C1: once the stored result of a horizon is success, partial or fail, a later
\* verify leaves that horizon's VerificationResult as it is.
C1_VerifyKeepsResolved ==
    [][last' = "verify" =>
        \A r \in Recs(Doc) : \A period \in PeriodSet :
            Resolved(Doc, r, period) =>
                Ver(file'.doc, r, period) = Ver(Doc, r, period)]_vars

\* C2: over extract, verify and import-history, a (record, horizon) whose
\* result has left pending never returns to pending.
C2_NoReturnToPending ==
    [][\A r \in Recs(Doc) \cap Recs(file'.doc) : \A period \in PeriodSet :
          Resolved(Doc, r, period) => Resolved(file'.doc, r, period)]_vars

\* C3: no operation makes a reference date disappear from the store or makes
\* a date's list of records shorter.
C3_StoreOnlyGrows ==
    [][/\ DOMAIN Doc \subseteq DOMAIN file'.doc
       /\ \A d \in DOMAIN Doc :
             Len(file'.doc[d].predictions) >= Len(Doc[d].predictions)]_vars

\* C4: for every store and every fixed response of the provider, running
\* verify(as_of_date) twice leaves the same stored state as running it once
\* (stated of every state in which a verify command can still run).
C4_VerifyIdempotent ==
    nops < MaxOps =>
    \A target_date \in AsOfDates : \A px \in [Symbols -> PriceOrNone] :
        LET once == verify_predictions(load_predictions(file), target_date, px)
        IN  /\ verify_predictions(once, target_date, px) = once
            /\ load_predictions(save_to_file(once)) = once

C4_Witness ==
    /\ nops < MaxOps
    /\ last = "verify"
    /\ \E r \in Recs(Doc) : \E period \in PeriodSet :
          /\ Resolved(Doc, r, period)
          /\ period \in DOMAIN Doc[r[1]].summary

\* C5: in every reachable state the stored summary of each date and horizon
\* equals the summary recomputed from that date's stored VerificationResults.
C5_SummaryMatchesResults ==
    \A d \in DOMAIN Doc : \A period \in DOMAIN Doc[d].summary :
        Doc[d].summary[period] = SummaryOf(Doc[d].predictions, period)

\* C6: for every date d, weekday or weekend, and every n >= 0,
\* subtract_trading_days(add_trading_days(d, n), n) = d.
C6_CalendarRoundTrip ==
    cal.pc = "done" => cal.out = cal.d

\* C6 as amended: the round trip returns d when d is a Monday-to-Friday date,
\* or when n = 0.
C6_CalendarRoundTripWeekday ==
    (cal.pc = "done" /\ (cal.d % 7 < 5 \/ cal.n = 0)) => cal.out = cal.d

C6_Witness ==
    /\ cal.pc = "done"
    /\ cal.d % 7 = 3
    /\ cal.n = 5
    /\ cal.out = cal.d

\* C7: classification computes in_target_range = (target_min <= close <=
\* target_max), direction_correct = (close > prev_close) for up, (close <
\* prev_close) for down and true for neutral, and result = success if in range,
\* else partial if the direction is correct, else fail; with prev_close 100,
\* target 102..105 and up, close 103 is success, 108 partial and 99 fail.
C7_Classification ==
    cls.pc = "done" =>
        LET in_range == cls.target_min <= cls.close /\ cls.close <= cls.target_max
            dir_ok == \/ cls.direction = "up" /\ cls.close > cls.prev_close
                      \/ cls.direction = "down" /\ cls.close < cls.prev_close
                      \/ cls.direction = "neutral"
            example == /\ cls.prev_close = 10000 /\ cls.direction = "up"
                       /\ cls.target_min = 10200 /\ cls.target_max = 10500
        IN  /\ cls.out.in_target_range = in_range
            /\ cls.out.direction_correct = dir_ok
            /\ cls.out.result = (IF in_range THEN "success"
                                 ELSE IF dir_ok THEN "partial" ELSE "fail")
            /\ example /\ cls.close = 10300 => cls.out.result = "success"
            /\ example /\ cls.close = 10800 => cls.out.result = "partial"
            /\ example /\ cls.close = 9900 => cls.out.result = "fail"

C7_Witness ==
    /\ cls.pc = "done"
    /\ cls.prev_close = 10000 /\ cls.direction = "up"
    /\ cls.target_min = 10200 /\ cls.target_max = 10500
    /\ cls.close = 10800
    /\ cls.out.result = "partial"

\* C8: verify never classifies a record whose prev_close is unresolved (0):
\* every stored record with a resolved horizon has a resolved prev_close.
C8_NoClassificationWithoutPrevClose ==
    \A r \in Recs(Doc) : \A period \in PeriodSet :
        Resolved(Doc, r, period) => Doc[r[1]].predictions[r[2]].prev_close # 0

ResolvedCount(preds, period) ==
    Cardinality({i \in 1..Len(preds) : preds[i].verification[period].result # "pending"})

SuccessCount(preds, period) ==
    Cardinality({i \in 1..Len(preds) : preds[i].verification[period].result = "success"})

\* C9: the accuracy recorded for a horizon has as denominator only the records
\* whose horizon is non-pending; a pending record counts in neither the
\* successes nor the total.
C9_AccuracyExcludesPending ==
    \A d \in DOMAIN Doc : \A period \in DOMAIN Doc[d].summary :
        LET n == ResolvedCount(Doc[d].predictions, period)
            summary == Doc[d].summary[period]
        IN  /\ summary.total = n
            /\ summary.success = SuccessCount(Doc[d].predictions, period)
            /\ summary.accuracy =
                 (IF n > 0 THEN RoundDiv(summary.success * 10000, n) ELSE 0)

PooledResolved(store, period) ==
    Cardinality({r \in Recs(store) : Resolved(store, r, period)})

PooledSuccess(store, period) ==
    Cardinality({r \in Recs(store) : Ver(store, r, period).result = "success"})

\* C10: for every horizon the report's accuracy is the pooled number of
\* successes over the pooled number of non-pending records of all dates (to
\* the fourth decimal), and its sample size is that pooled non-pending count.
C10_ReportIsPooled ==
    \A period \in PeriodSet :
        LET n == PooledResolved(Doc, period)
            rows == {k \in DOMAIN table_data(Doc) :
                       table_data(Doc)[k].period = period}
        IN  /\ n > 0 => rows # {}
            /\ \A k \in rows :
                 LET row == table_data(Doc)[k]
                 IN  /\ row.samples = n
                     /\ Abs(row.accuracy_sum * n
                              - PooledSuccess(Doc, period) * 10000 * row.samples)
                          <= n * row.samples

-----------------------------------------------------------------------------
(* Scheduled verification *)

\* the day on which the schedule verifies horizon `period` of the set of `date`
DueDay(date, period) == _add_trading_days(date, Days(period))

\* the runs after day t, and whether the provider answered for symbol in all
LaterRuns(t) == {u \in DOMAIN sched.px : u > t}

\* C11: a horizon left pending because the close was unavailable in its verify
\* run has left pending by the end of the schedule when the provider answered
\* in every later daily run (the horizon is retried by the later runs)
C11_PendingRetried ==
    sched.pc = "done" =>
        \A i \in 1..Len(Doc[sched.date].predictions), period \in PeriodSet :
            LET pred == Doc[sched.date].predictions[i]
                due == DueDay(sched.date, period)
            IN  ( /\ due \in DOMAIN sched.px
                  /\ sched.px[due][pred.symbol] = None
                  /\ LaterRuns(due) # {}
                  /\ \A u \in LaterRuns(due) : sched.px[u][pred.symbol] # None )
                => pred.verification[period].result # "pending"

\* x is num/den rounded to the nearest integer (den > 0)
IsRounded(x, num, den) == 2 * Abs(x * den - num) <= den

\* C19: in the schedule, the run of day add_trading_days(d, H) with the close
\* available resolves horizon H of every record of d: verification date = the
\* as-of date, the close, change_pct = (close - prev_close) / prev_close * 100
\* rounded to 2 decimals, and the flags of the classification; for the record
\* 2330 Up (600, 610) prev_close 590 of a Tuesday, the next day's close 605
\* gives success, +2.54, in range, direction correct
C19_VerifyResolvesHorizon ==
    sched.pc \in {"run", "done"} =>
        \A i \in 1..Len(Doc[sched.date].predictions), period \in PeriodSet :
            LET pred == Doc[sched.date].predictions[i]
                due == DueDay(sched.date, period)
                v == pred.verification[period]
            IN  (due \in DOMAIN sched.px /\ sched.px[due][pred.symbol] # None) =>
                LET close == sched.px[due][pred.symbol]
                IN  /\ v.date = due
                    /\ v.close_price = close
                    /\ v.result \in {"success", "partial", "fail"}
                    /\ pred.prev_close > 0 =>
                           IsRounded(v.change_pct,
                                     (close - pred.prev_close) * 10000,
                                     pred.prev_close)
                    /\ v.in_target_range =
                           (pred.target_min <= close /\ close <= pred.target_max)
                    /\ v.direction_correct =
                           ( \/ pred.direction = "up" /\ close > pred.prev_close
                             \/ pred.direction = "down" /\ close < pred.prev_close
                             \/ pred.direction = "neutral" )
                    /\ ( /\ Weekday(sched.date) = 1 /\ period = "T+1"
                         /\ JsonPred(ExamplePred) = [f \in DOMAIN pred \ {"verification"} |-> pred[f]]
                         /\ close = 60500 )
                       => /\ v.result = "success" /\ v.change_pct = 254
                          /\ v.in_target_range /\ v.direction_correct

C19_Witness ==
    /\ sched.pc = "done"
    /\ sched.date = 1
    /\ LET v == Doc[1].predictions[1].verification["T+1"]
       IN  v.date = 2 /\ v.close_price = 60500 /\ v.change_pct = 254
           /\ v.result = "success"

-----------------------------------------------------------------------------
(* Upsert *)

\* the fields of a stored record that extraction produced
Payload(rec) == [f \in DOMAIN rec \ {"verification"} |-> rec[f]]

AllPending(rec) ==
    \A period \in PeriodSet :
        /\ rec.verification[period].result = "pending"
        /\ rec.verification[period].date = None
        /\ rec.verification[period].close_price = None

\* C12: after upsert(date, records), for a date new to the store or already
\* present and any extracted list, the set stored for the date is exactly the
\* given records in order, each with its four horizons pending, in memory and
\* in the saved document
C12_UpsertStoresGiven ==
    \A date \in RefDates, preds \in ExtractedLists :
        LET store == save_predictions(load_predictions(file), date, preds)
            stored == store[date].predictions
            saved == save_to_file(store).doc[date].predictions
        IN  /\ Len(stored) = Len(preds)
            /\ Len(saved) = Len(preds)
            /\ \A i \in 1..Len(preds) :
                  /\ Payload(stored[i]) = preds[i]
                  /\ Payload(saved[i]) = JsonPred(preds[i])
                  /\ AllPending(stored[i])
                  /\ AllPending(saved[i])

\* an upsert has just replaced a set that had been verified
C12_Witness ==
    /\ last = "extract"
    /\ \E date \in DOMAIN Doc :
          /\ Doc[date].summary # <<>>
          /\ Doc[date].predictions # <<>>
          /\ \A i \in 1..Len(Doc[date].predictions) :
                AllPending(Doc[date].predictions[i])

\* C13: upsert(date, R) performed twice with the same extracted list leaves
\* the same saved store as performing it once, also when a verify ran between
\* the two upserts
C13_UpsertIdempotent == ups.pc = "done" => file = ups.once

-----------------------------------------------------------------------------
(* Failure isolation in verify *)

\* C15: in one verify call with the close of symbol s unavailable, every
\* record of s keeps its results exactly as they were, every other record of
\* every set and horizon gets the result it gets when s is available too, and
\* a set none of whose records has a close keeps its summary (nothing counted)
C15_UnavailableRecordSkipped ==
    nops < MaxOps =>
        LET store == load_predictions(file)
        IN  \A target_date \in AsOfDates, px \in [Symbols -> PriceOrNone] :
                LET a == verify_predictions(store, target_date, px)
                IN  \A s \in {t \in Symbols : px[t] = None}, c \in Prices :
                        LET b == verify_predictions(store, target_date,
                                                    [px EXCEPT ![s] = c])
                        IN  /\ DOMAIN a = DOMAIN store
                            /\ \A d \in DOMAIN store :
                                  /\ Len(a[d].predictions) = Len(store[d].predictions)
                                  /\ \A i \in 1..Len(store[d].predictions) :
                                        IF store[d].predictions[i].symbol = s
                                        THEN a[d].predictions[i] = store[d].predictions[i]
                                        ELSE a[d].predictions[i] = b[d].predictions[i]
                                  /\ (\A i \in 1..Len(store[d].predictions) :
                                         px[store[d].predictions[i].symbol] = None)
                                     => a[d].summary = store[d].summary

\* a verify resolved one record of a set and left the other, whose close was
\* unavailable, pending
C15_Witness ==
    /\ last = "verify"
    /\ \E d \in DOMAIN Doc, period \in PeriodSet :
          /\ Len(Doc[d].predictions) = 2
          /\ Doc[d].predictions[1].verification[period].result = "pending"
          /\ Doc[d].predictions[2].verification[period].result # "pending"
          /\ DOMAIN Doc[d].summary = {period}

\* C16: verify takes subtract_trading_days(as_of, H) as the source date of
\* horizon H; a source date with no set in the store is skipped, no entry is
\* created for it, the horizons whose source date is stored are still
\* processed (date and close written for every record with a close), and the
\* store is saved
C16_MissingSourceDateSkipped ==
    /\ last = "verify" => (file.exists /\ file = save_to_file(predictions))
    /\ nops < MaxOps =>
        LET store == load_predictions(file)
        IN  \A target_date \in AsOfDates, px \in [Symbols -> PriceOrNone] :
                LET a == verify_predictions(store, target_date, px)
                IN  /\ DOMAIN a = DOMAIN store
                    /\ save_to_file(a).exists
                    /\ \A period \in PeriodSet :
                          LET pred_date == _subtract_trading_days(target_date, Days(period))
                          IN  pred_date \in DOMAIN store =>
                                \A i \in 1..Len(store[pred_date].predictions) :
                                    LET pred == a[pred_date].predictions[i]
                                    IN  px[pred.symbol] # None =>
                                          /\ pred.verification[period].date = target_date
                                          /\ pred.verification[period].close_price = px[pred.symbol]

\* a verify whose T+0 source date (the as-of date) is not stored resolved a
\* later horizon of a stored set
C16_Witness ==
    /\ last = "verify"
    /\ \E d \in DOMAIN Doc, period \in PeriodSet \ {"T+0"} :
          /\ DOMAIN Doc[d].summary = {period}
          /\ Len(Doc[d].predictions) > 0
          /\ Doc[d].predictions[1].verification[period].result # "pending"
          /\ Doc[d].predictions[1].verification[period].date \notin DOMAIN Doc

-----------------------------------------------------------------------------
(* Persistence round trip *)

-----------------------------------------------------------------------------
(* Failed write *)

\* C14: when writing the store fails during verify, the document left at the
\* store path is all-or-nothing: the complete document of before the verify
\* or the complete document of after it, and a later load parses it
C14_FailedWriteAllOrNothing ==
    [][last' = "verify_failed" =>
          /\ file' = file \/ file' = save_to_file(predictions')
          /\ file'.exists => file'.valid]_vars

-----------------------------------------------------------------------------
(* Extraction *)

\* C17: every stored record whose target range is resolved has
\* target_min <= target_max (extraction lets no range with min > max through)
C17_TargetRangeOrdered ==
    \A d \in DOMAIN Doc :
        \A i \in 1..Len(Doc[d].predictions) :
            LET pred == Doc[d].predictions[i]
            IN  (pred.target_min # 0 \/ pred.target_max # 0)
                => pred.target_min <= pred.target_max

\* a block the extraction of the stock sections turns into a record
WellFormed(block) ==
    /\ block.header
    /\ block.direction_str \in {"kan-zhang", "kan-die", "zhen-dang"}
    /\ block.target = "range"

-----------------------------------------------------------------------------
(* Trading-day counting *)

\* the Monday-to-Friday dates among a set of dates
MonToFri(S) == {x \in S : x % 7 \in 0..4}

\* C21: for every date d and n >= 1, add_trading_days(d, n) and
\* subtract_trading_days(d, n) return a Monday-to-Friday date, and exactly n
\* Monday-to-Friday dates lie between d (exclusive) and the result (inclusive)
C21_CountsWeekdaysOnly ==
    /\ (cal.pc = "added" /\ cal.n >= 1) =>
          /\ cal.out % 7 \in 0..4
          /\ cal.out > cal.d
          /\ Cardinality(MonToFri((cal.d + 1)..cal.out)) = cal.n
    /\ (cal.pc = "subtracted" /\ cal.n >= 1) =>
          /\ cal.out % 7 \in 0..4
          /\ cal.out < cal.d
          /\ Cardinality(MonToFri(cal.out..(cal.d - 1))) = cal.n

\* three trading days back from a Sunday is the Wednesday before
C21_Witness ==
    /\ cal.pc = "subtracted"
    /\ cal.d % 7 = 6
    /\ cal.n = 3
    /\ cal.out = cal.d - 4

-----------------------------------------------------------------------------
(* Order of the horizons *)

\* the orders in which the four horizons can be processed
Orders ==
    {o \in [1..4 -> PeriodSet] : \A i, j \in 1..4 : i # j => o[i] # o[j]}

\* the loop over the horizons taken in the order o
VerifyInOrder(store, o, target_date, px) ==
    VerifyPeriod(VerifyPeriod(VerifyPeriod(VerifyPeriod(
        store, o[1], target_date, px), o[2], target_date, px),
        o[3], target_date, px), o[4], target_date, px)

\* C22: for every as-of date, weekday or weekend, the four source dates
\* subtract_trading_days(as_of, H) are pairwise distinct, and processing the
\* horizons in any order leaves the store that the order T+0, T+1, T+3, T+5 of
\* verify leaves
C22_HorizonOrderIrrelevant ==
    nops < MaxOps =>
        LET store == load_predictions(file)
        IN  \A target_date \in AsOfDates :
                /\ \A p, q \in PeriodSet :
                      p # q => _subtract_trading_days(target_date, Days(p))
                                 # _subtract_trading_days(target_date, Days(q))
                /\ \A px \in [Symbols -> PriceOrNone] :
                      LET a == verify_predictions(store, target_date, px)
                      IN  /\ a = VerifyInOrder(store, Periods, target_date, px)
                          /\ \A o \in Orders :
                                VerifyInOrder(store, o, target_date, px) = a

\* one verify resolved T+0 of the set of its as-of date and T+1 of the set of
\* the trading day before
C22_Witness ==
    /\ last = "verify"
    /\ {0, 1} \subseteq DOMAIN Doc
    /\ Doc[0].predictions # <<>> /\ Doc[1].predictions # <<>>
    /\ Doc[1].predictions[1].verification["T+0"].date = 1
    /\ Doc[0].predictions[1].verification["T+1"].date = 1
    /\ DOMAIN Doc[1].summary = {"T+0"} /\ DOMAIN Doc[0].summary = {"T+1"}

-----------------------------------------------------------------------------
(* Verification dates and the frame of verify *)

\* C24: whenever horizon H of a record of the set dated d is not pending, its
\* stored verification date is add_trading_days(d, H)
C24_VerificationDateIsDueDay ==
    \A d \in DOMAIN Doc :
        \A i \in 1..Len(Doc[d].predictions), period \in PeriodSet :
            LET v == Doc[d].predictions[i].verification[period]
            IN  v.result # "pending" => v.date = DueDay(d, period)

\* the summary entry of a horizon, None when the summary has none
SummaryEntry(store, d, period) ==
    IF period \in DOMAIN store[d].summary THEN store[d].summary[period] ELSE None

\* C25: verify(as_of) changes only the horizon-H result of the records and the
\* horizon-H summary of the set dated subtract_trading_days(as_of, H): the set
\* of dates, the number and order of the records, every payload field of every
\* record (symbol, direction, prev_close, target range), every other horizon
\* and summary entry of the touched sets and every other set stay as they were
C25_VerifyFrame ==
    nops < MaxOps =>
        LET store == load_predictions(file)
        IN  \A target_date \in AsOfDates, px \in [Symbols -> PriceOrNone] :
                LET a == verify_predictions(store, target_date, px)
                IN  /\ DOMAIN a = DOMAIN store
                    /\ \A d \in DOMAIN store :
                          /\ Len(a[d].predictions) = Len(store[d].predictions)
                          /\ \A i \in 1..Len(store[d].predictions) :
                                Payload(a[d].predictions[i])
                                  = Payload(store[d].predictions[i])
                          /\ \A period \in PeriodSet :
                                _subtract_trading_days(target_date, Days(period)) # d
                                => /\ SummaryEntry(a, d, period)
                                        = SummaryEntry(store, d, period)
                                   /\ \A i \in 1..Len(store[d].predictions) :
                                         a[d].predictions[i].verification[period]
                                           = store[d].predictions[i].verification[period]

\* a verify resolved T+1 of a record with unresolved prev_close and left the
\* record's payload and its other horizons alone
C25_Witness ==
    /\ last = "verify"
    /\ \E d \in DOMAIN Doc :
          /\ DOMAIN Doc[d].summary = {"T+1"}
          /\ \E i \in 1..Len(Doc[d].predictions) :
                LET pred == Doc[d].predictions[i]
                IN  /\ pred.prev_close = 0
                    /\ pred.verification["T+1"].result # "pending"
                    /\ pred.verification["T+0"].result = "pending"
                    /\ pred.verification["T+3"].result = "pending"

-----------------------------------------------------------------------------
(* Historical report *)

\* C23: in the report the improvement of each horizon is its accuracy minus
\* the T+0 accuracy (the mean of the T+0 accuracies of the dates that have
\* one): the baseline is the T+0 figure for every store
C23_BaselineIsT0 ==
    (last = "analyze" /\ ~rep.raised /\ rep.rows # <<>>) =>
        LET t0 == StatsDates(Doc, "T+0")
            t0_sum == SumAccuracy(Doc, t0, "T+0")
            t0_n == Cardinality(t0)
        IN  /\ rep.base_period = "T+0"
            /\ t0 # {}
            /\ \A k \in 1..Len(rep.rows) :
                  LET row == rep.rows[k]
                  IN  row.improvement_num * (row.samples * t0_n)
                        = (row.accuracy_sum * t0_n - t0_sum * row.samples)
                            * row.improvement_den

\* C27: analyze_history completes and writes a report without raising for
\* every store, the empty store and stores without summaries included
C27_ReportNeverRaises ==
    rep.pc = "done" => (~rep.raised /\ rep.written)

-----------------------------------------------------------------------------
(* The two verification paths on one freshly saved set: import-history's
   verification of the date runs on the file as saved, and verify is run for
   the due day of each horizon in turn on the same file; the provider answers
   both paths alike *)

PthDates == {d \in AsOfDates : IsTradingDay(d)}

\* the closes get_close_price returns on the due day of a period
PthCloses(hx, period) == [s \in Symbols |-> HistClose(hx, period)]

PthInit ==
    /\ StoreIdle
    /\ cal = Idle
    /\ cls = Idle
    /\ sched = Idle
    /\ ext = Idle
    /\ ups = Idle
    /\ rep = Idle
    /\ trk = Idle
    /\ pth = [pc |-> "start", date |-> None, hx |-> None, k |-> 1, imp |-> NoFile]

PthUpsert(date, preds, hx) ==
    /\ pth.pc = "start"
    /\ predictions' = save_predictions(load_predictions(file), date, preds)
    /\ file' = save_to_file(predictions')
    /\ last' = "extract"
    /\ pth' = [pth EXCEPT !.pc = "saved", !.date = date, !.hx = hx]
    /\ UNCHANGED <<nops, cal, cls, sched, ext, ups, rep, trk>>

\* _verify_historical_periods(date) on the file as saved; what it writes is
\* kept in pth.imp
PthImport ==
    /\ pth.pc = "saved"
    /\ pth' = [pth EXCEPT !.pc = "verifying",
                 !.imp = save_to_file(_verify_historical_periods(
                             load_predictions(file), pth.date, pth.hx))]
    /\ UNCHANGED <<predictions, file, last, nops, cal, cls, sched, ext, ups, rep, trk>>

\* verify <add_trading_days(date, n)> for the k-th horizon
PthVerify ==
    /\ pth.pc = "verifying"
    /\ predictions' = verify_predictions(load_predictions(file),
                          _add_trading_days(pth.date, Days(Periods[pth.k])),
                          PthCloses(pth.hx, Periods[pth.k]))
    /\ file' = save_to_file(predictions')
    /\ last' = "verify"
    /\ pth' = IF pth.k = Len(Periods) THEN [pth EXCEPT !.pc = "done"]
              ELSE [pth EXCEPT !.k = pth.k + 1]
    /\ UNCHANGED <<nops, cal, cls, sched, ext, ups, rep, trk>>

PthNext ==
    \/ \E date \in PthDates, preds \in ExtractedLists \ {<<>>}, hx \in HistResponses :
           PthUpsert(date, preds, hx)
    \/ PthImport
    \/ PthVerify

SpecPth == PthInit /\ [][PthNext]_vars

\* C26: once verify has run for the due day of each of the four horizons, the
\* entry of the date (per-horizon results and summaries) is the one that
\* import-history's verification writes from the same saved set and the same
\* provider answers.
C26_PathsAgree ==
    pth.pc = "done" => file.doc[pth.date] = pth.imp.doc[pth.date]

-----------------------------------------------------------------------------
(* The 7-day stock tracker (scripts/stock_tracker.py) and the format
   normaliser of its tracking files (scripts/normalize_tracking_format.py).
   trk holds one tracking file: its recommendations and its metadata. Of a
   daily update the date, the day count, the close and the gain are kept;
   volume, institutional data and notes do not steer the tracker. *)

Terminal == {"success", "failed", "neutral", "stop_loss"}

\* a key the record does not carry
Missing == "missing"

DefaultTrackingDays == 7

\* rec.get('status', 'tracking')
StatusOrTracking(rec) == IF rec.status = Missing THEN "tracking" ELSE rec.status

\* rec.get('tracking_days', 7)
TrackingDays(rec) ==
    IF rec.tracking_days = None THEN DefaultTrackingDays ELSE rec.tracking_days

\* a recommendation of a tracking file; fmt "old" carries symbol, name and
\* date, fmt "new" carries stock_code, stock_name and recommend_date
Recommendation(fmt, status, recommend_price) ==
    [fmt |-> fmt, status |-> status, recommend_date |-> 0,
     recommend_price |-> recommend_price, target_price |-> 11000,
     stop_loss |-> 9500, tracking_days |-> None, daily_updates |-> <<>>]

RecKinds ==
    { Recommendation("new", "tracking", 10000),
      Recommendation("new", Missing, 10000),
      Recommendation("old", Missing, 10000),
      Recommendation("new", "tracking", None) }

TrkFiles == SeqsUpTo(RecKinds, MaxRecs)

\* what get_stock_price returns: no data, or a close at or under the stop,
\* 4% under, 1% over, 4% over the recommended price, or at the target
TrkCloses == {None, 9400, 9600, 10100, 10400, 11000}

\* the dates run() is asked for
TrkDates == {1, DefaultTrackingDays}

update_tracking_record(rec, today, price) ==
    IF rec.recommend_price = None \/ rec.recommend_price = 0 THEN [updated |-> FALSE, rec |-> rec]
    ELSE IF price = None THEN [updated |-> FALSE, rec |-> rec]
    ELSE
    LET gain_loss_pct == RoundDiv((price - rec.recommend_price) * 10000,
                                  rec.recommend_price)
        days_tracked == today - rec.recommend_date
        today_update == [date |-> today, day |-> days_tracked,
                         close_price |-> price, gain_loss_pct |-> gain_loss_pct]
        status ==
            IF price >= rec.target_price THEN "success"
            ELSE IF price <= rec.stop_loss THEN "stop_loss"
            ELSE IF days_tracked >= TrackingDays(rec)
                 THEN IF gain_loss_pct >= 300 THEN "success"
                      ELSE IF gain_loss_pct <= -300 THEN "failed"
                      ELSE "neutral"
                 ELSE rec.status
    IN  [updated |-> TRUE,
         rec |-> [rec EXCEPT !.status = status,
                             !.daily_updates = Append(@, today_update)]]

\* an update that is made although the status is already final
RunRecNoSkip(rec, today, price) == update_tracking_record(rec, today, price)

\* the body of the loop over recommendations in run()
RunRec(rec, today, price) ==
    IF StatusOrTracking(rec) \in Terminal
    THEN [updated |-> FALSE, rec |-> rec]
    ELSE update_tracking_record(rec, today, price)

\* generate_7day_report reads recommendation['stock_code'], ['stock_name']
\* and ['recommend_date'], which a record of the old format does not carry
ReportRaises(rec) == rec.fmt = "old"

RECURSIVE RunLoop(_, _, _, _)
RunLoop(recs, k, today, px) ==
    IF k > Len(recs) THEN [recommendations |-> recs, raised |-> FALSE]
    ELSE LET r == RunRec(recs[k], today, px[k])
         IN  IF r.updated /\ r.rec.status \in Terminal /\ ReportRaises(r.rec)
             THEN [recommendations |-> recs, raised |-> TRUE]
             ELSE RunLoop([recs EXCEPT ![k] = r.rec], k + 1, today, px)

Count(recs, S) == Cardinality({i \in 1..Len(recs) : recs[i].status \in S})

\* the metadata update at the end of run()
Metadata(recs) ==
    [written |-> TRUE,
     tracking_active |->
         Cardinality({i \in 1..Len(recs) : StatusOrTracking(recs[i]) = "tracking"}),
     tracking_completed |-> Count(recs, Terminal),
     success_count |-> Count(recs, {"success"}),
     stop_loss_count |-> Count(recs, {"stop_loss"})]

NoMetadata ==
    [written |-> FALSE, tracking_active |-> 0, tracking_completed |-> 0,
     success_count |-> 0, stop_loss_count |-> 0]

normalize_recommendation(rec) ==
    [rec EXCEPT !.fmt = "new",
                !.status = IF @ = Missing THEN "pending" ELSE @,
                !.tracking_days = IF @ = None THEN 7 ELSE @]

TrkInit ==
    /\ StoreIdle
    /\ cal = Idle
    /\ cls = Idle
    /\ sched = Idle
    /\ ext = Idle
    /\ ups = Idle
    /\ rep = Idle
    /\ pth = Idle
    /\ trk \in [pc : {"ready"}, recommendations : TrkFiles, metadata : {NoMetadata},
                last : {"init"}, raised : {FALSE}, today : {None}]

\* run(target_date) over the tracking file; px[k] is what get_stock_price
\* returns when asked for the k-th recommendation. A run that raises has
\* not saved the file.
Run(today, px) ==
    /\ nops < MaxOps
    /\ trk.pc = "ready"
    /\ LET out == RunLoop(trk.recommendations, 1, today, px)
       IN  trk' = IF out.raised
                  THEN [trk EXCEPT !.last = "run", !.raised = TRUE, !.today = today]
                  ELSE [trk EXCEPT !.recommendations = out.recommendations,
                                   !.metadata = Metadata(out.recommendations),
                                   !.last = "run", !.raised = FALSE, !.today = today]
    /\ nops' = nops + 1
    /\ UNCHANGED <<predictions, file, last, cal, cls, sched, ext, ups, rep, pth>>

\* normalize_tracking_file on the tracking file
Normalize ==
    /\ nops < MaxOps
    /\ trk.pc = "ready"
    /\ trk' = [trk EXCEPT
                 !.recommendations = [k \in 1..Len(trk.recommendations) |->
                     normalize_recommendation(trk.recommendations[k])],
                 !.last = "normalize", !.raised = FALSE]
    /\ nops' = nops + 1
    /\ UNCHANGED <<predictions, file, last, cal, cls, sched, ext, ups, rep, pth>>

TrkNext ==
    \/ \E today \in TrkDates, px \in [1..MaxRecs -> TrkCloses] : Run(today, px)
    \/ Normalize

SpecTrk == TrkInit /\ [][TrkNext]_vars

\* C28: a run leaves a recommendation whose saved status is success, failed,
\* neutral or stop_loss as it is (status and daily_updates), and adds at most
\* one daily update to any other recommendation.
C28_TerminalIsFinal ==
    [][\A k \in 1..Len(trk.recommendations) :
          LET rec == trk.recommendations[k]
              after == trk'.recommendations[k]
          IN  /\ rec.status \in Terminal =>
                    /\ after.status = rec.status
                    /\ after.daily_updates = rec.daily_updates
              /\ Len(after.daily_updates) <= Len(rec.daily_updates) + 1]_vars

\* a status set by the run of day 1 is still there, with its one update,
\* after the run of day 7, which has added an update to another record
C28_Witness ==
    /\ trk.last = "run" /\ ~trk.raised /\ trk.today = DefaultTrackingDays
    /\ \E k, j \in 1..Len(trk.recommendations) :
          LET rec == trk.recommendations[k]
              other == trk.recommendations[j]
          IN  /\ rec.status \in Terminal
              /\ Len(rec.daily_updates) = 1
              /\ rec.daily_updates[1].date < trk.today
              /\ Len(other.daily_updates) = 2
              /\ other.daily_updates[2].date = trk.today

\* C29: after a run that saved the file, tracking_active + tracking_completed
\* is the number of recommendations and success_count + stop_loss_count is at
\* most tracking_completed, whatever statuses the recommendations carry.
C29_MetadataPartitions ==
    (trk.pc = "ready" /\ trk.last = "run" /\ ~trk.raised) =>
        /\ trk.metadata.written
        /\ trk.metadata.tracking_active + trk.metadata.tracking_completed
             = Len(trk.recommendations)
        /\ trk.metadata.success_count + trk.metadata.stop_loss_count
             <= trk.metadata.tracking_completed

====
